---- MODULE Spec2Model ----
(***************************************************************************)
(* AEPFileCleanupService (app/src/file_cleanup.py): a service object with  *)
(* a _running flag and a _thread handle, a controller (app.py __main__)    *)
(* that calls start() and stop(), the loop threads start() launches, and   *)
(* the download directory they scan.  The downloader and other actors      *)
(* write to and remove from the same directory.  Time is a clock `now` in  *)
(* seconds that advances in steps of 1 s, the join timeout and the         *)
(* cleanup interval.  The introspection helpers of the service and the two *)
(* handlers of app.py that stand between a request and the directory       *)
(* (POST /api/info, GET /api/file/<name>) are modelled as the functions    *)
(* they are, each with a specification of its own.                         *)
(***************************************************************************)
EXTENDS Integers, FiniteSets, Sequences, TLC

\* ------------------------------------------------------------ constants
AEP_CLEANUP_INTERVAL_SECONDS == 300
AEP_FILE_MAX_AGE_SECONDS == 3600
JoinTimeout == 5

\* ------------------------------------------------------------ bounds
MaxThreads == 2
MaxTicks == 2
MaxEnv == 1

Threads == 1..MaxThreads
None == 0

Files == {"a.mp4", "b.mp4"}
\* a third file, which only the introspection helpers are given
MoreFiles == {"c.mp4"}
Dirs == {"sub"}
Names == Files \cup MoreFiles \cup Dirs

\* ages (at time 0) of the files the directory may hold at construction
InitAges == {10, AEP_FILE_MAX_AGE_SECONDS, 3700}

Absent == [kind |-> "none", mtime |-> 0]
IsFileRec(r) == r.kind = "file"

VARIABLES
    download_path,    \* self.download_path
    max_age_seconds,  \* self.max_age_seconds
    cleanup_interval, \* self.cleanup_interval
    running,          \* self._running
    thread,           \* self._thread: None or the last thread launched
    pc,               \* per loop thread: where it is in _cleanup_loop
    todo,             \* per thread: entries of os.listdir not yet visited
    cur,              \* per thread: filename of the current iteration
    current_time,     \* per thread: current_time of the running cycle
    file_age,         \* per thread: file_age of the current iteration
    deleted_count,    \* per thread: deleted_count of the running cycle
    wake_at,          \* per thread: when its time.sleep returns
    ctl,              \* the controller: "idle" or inside stop()'s join
    join_deadline,    \* when the join of stop() times out
    now,              \* the clock, seconds
    ticks,            \* clock steps taken
    fs,               \* the download directory: name -> kind, mtime
    dir_exists,       \* os.path.exists(download_path)
    env,              \* downloads and foreign removals so far
    snap,             \* per thread: the directory when its cycle began
    removed_by,       \* per thread: names it removed in its cycle
    failed_del,       \* per thread: names whose os.remove raised
    inspect_failed,   \* per thread: getmtime raised in its cycle
    stopped_asleep,   \* threads that were in time.sleep when stop() ran
    last_call,        \* what the controller's last finished call did
    stop_called,      \* stop() has been called at least once
    told_to_stop,     \* threads that were alive at a stop() call
    deleted_after_stop, \* a file was removed after a stop() had returned
    fsize,            \* os.path.getsize of each entry
    stat,             \* the last result of get_file_count/get_directory_size
    tree,             \* the regular files of the host, by absolute path
    response          \* the last answer of an HTTP handler

config == <<download_path, max_age_seconds, cleanup_interval>>
service == <<running, thread>>
locals == <<todo, cur, current_time, file_age, deleted_count, wake_at>>
history == <<snap, removed_by, failed_del, inspect_failed>>
clock == <<now, ticks>>
disk == <<fs, dir_exists, env>>
control == <<ctl, join_deadline, last_call, stop_called, stopped_asleep,
             told_to_stop>>
aside == <<fsize, stat, tree, response>>
vars == <<config, service, pc, locals, history, clock, disk, control,
          deleted_after_stop, aside>>

\* ------------------------------------------------------------ helpers
Alive(t) == pc[t] \notin {"unborn", "done"}
Launched == {t \in Threads : pc[t] # "unborn"}
InCycle(t) == pc[t] \in {"cleanup", "iter", "getmtime", "remove"}

\* os.listdir(download_path)
ListDir == {n \in Names : fs[n].kind # "none"}

\* os.path.isfile(filepath)
IsEntry(n) == fs[n].kind # "none"
IsFile(n) == fs[n].kind = "file"

\* line 116: file_age > self.max_age_seconds
QualifiesAtThreshold(age) == age >= max_age_seconds
Qualifies(age) == age > max_age_seconds

\* ------------------------------------------------------------ Init
\* the directories the service may be pointed at: every choice of the two
\* files (absent, or of one of the InitAges) and of the subdirectory
Directories ==
    {d \in [Names -> {Absent}
               \cup [kind : {"file"}, mtime : {0 - a : a \in InitAges}]
               \cup [kind : {"dir"}, mtime : {0 - 3700}]] :
        /\ \A n \in Files : d[n].kind # "dir"
        /\ \A n \in MoreFiles : d[n] = Absent
        /\ \A n \in Dirs : d[n].kind # "file"}

EmptyDirectory == [n \in Names |-> Absent]

\* an empty directory, and one holding a single file past the retention
LifecycleDirectories ==
    {EmptyDirectory,
     [EmptyDirectory EXCEPT !["a.mp4"] = [kind |-> "file", mtime |-> 0 - 3700]]}

\* nothing has been asked of the helpers or of the HTTP handlers yet
NoStat == [op |-> "none", value |-> 0]
NoResponse == [route |-> "none", status |-> 0]

\* the sizes of the scenario: files of 10, 20 and 30 bytes
ScenarioSizes ==
    [n \in Names |-> CASE n = "a.mp4" -> 10
                       [] n = "b.mp4" -> 20
                       [] n = "c.mp4" -> 30
                       [] OTHER -> 40]

\* __init__ (lines 44-48), at time 0, pointed at directory d (missing when
\* `there` is false)
InitWith(there, d) ==
    /\ download_path = "downloads"
    /\ max_age_seconds = AEP_FILE_MAX_AGE_SECONDS
    /\ cleanup_interval = AEP_CLEANUP_INTERVAL_SECONDS
    /\ running = FALSE
    /\ thread = None
    /\ pc = [t \in Threads |-> "unborn"]
    /\ todo = [t \in Threads |-> {}]
    /\ cur = [t \in Threads |-> "-"]
    /\ current_time = [t \in Threads |-> 0]
    /\ file_age = [t \in Threads |-> 0]
    /\ deleted_count = [t \in Threads |-> 0]
    /\ wake_at = [t \in Threads |-> 0]
    /\ ctl = "idle"
    /\ join_deadline = 0
    /\ now = 0
    /\ ticks = 0
    /\ dir_exists = there
    /\ fs = d
    /\ env = 0
    /\ snap = [t \in Threads |-> EmptyDirectory]
    /\ removed_by = [t \in Threads |-> {}]
    /\ failed_del = [t \in Threads |-> {}]
    /\ inspect_failed = [t \in Threads |-> FALSE]
    /\ stopped_asleep = {}
    /\ last_call = "none"
    /\ stop_called = FALSE
    /\ told_to_stop = {}
    /\ deleted_after_stop = FALSE
    /\ stat = NoStat
    /\ response = NoResponse

Init ==
    /\ \/ InitWith(FALSE, EmptyDirectory)
       \/ \E d \in LifecycleDirectories : InitWith(TRUE, d)
    /\ fsize = ScenarioSizes
    /\ tree = {}

InitCycle ==
    /\ \/ InitWith(FALSE, EmptyDirectory)
       \/ \E d \in Directories : InitWith(TRUE, d)
    /\ fsize = ScenarioSizes
    /\ tree = {}

\* ------------------------------------------------------------ start()
\* line 54: if self._running
AlwaysStopped == FALSE
AlreadyRunning == running

\* lines 50-67.  The thread object is new at every call; the model names it
\* by the number of threads launched so far, and launches at most MaxThreads.
Start ==
    /\ ctl = "idle"
    /\ IF AlreadyRunning
       THEN /\ last_call' = "start_noop"
            /\ UNCHANGED <<service, pc>>
       ELSE /\ Cardinality(Launched) < MaxThreads
            /\ LET t == Cardinality(Launched) + 1 IN
                 /\ running' = TRUE
                 /\ thread' = t
                 /\ pc' = [pc EXCEPT ![t] = "while"]
            /\ last_call' = "start"
    /\ UNCHANGED <<aside, deleted_after_stop, config, locals, history,
                   clock, disk, ctl, join_deadline, stop_called,
                   stopped_asleep, told_to_stop>>

\* lines 54-63 when Thread.start() raises (RuntimeError: can't start new
\* thread): line 58 has set the flag, line 59 has recorded a thread that
\* never runs, and the exception leaves start()
StartFails ==
    /\ ctl = "idle"
    /\ ~AlreadyRunning
    /\ Cardinality(Launched) < MaxThreads
    /\ running' = TRUE
    /\ thread' = Cardinality(Launched) + 1
    /\ last_call' = "start_raised"
    /\ UNCHANGED <<aside, deleted_after_stop, config, pc, locals, history,
                   clock, disk, ctl, join_deadline, stop_called,
                   stopped_asleep, told_to_stop>>

\* ------------------------------------------------------------ stop()
\* line 75: self._thread.join(timeout=5) returns when the thread has ended
\* or the timeout has run out
JoinReturnsNoTimeout(t) == pc[t] = "done"
JoinReturns(t) == pc[t] = "done" \/ now >= join_deadline

\* line 73: self._running = False
FlagKept == running
FlagAfterStop == FALSE

\* lines 73-75, up to the call of join.  The join of a thread that was never
\* started raises RuntimeError, and stop() with it.
StopCall ==
    /\ ctl = "idle"
    /\ running' = FlagAfterStop
    /\ stop_called' = TRUE
    /\ stopped_asleep' = {t \in Threads : pc[t] = "sleep" /\ now < wake_at[t]}
    /\ told_to_stop' = told_to_stop \cup {t \in Threads : Alive(t)}
    /\ IF thread # None /\ pc[thread] # "unborn"
       THEN /\ ctl' = "join"
            /\ join_deadline' = now + JoinTimeout
            /\ UNCHANGED last_call
       ELSE /\ last_call' = IF thread # None THEN "stop_raised" ELSE "stop"
            /\ UNCHANGED <<ctl, join_deadline>>
    /\ UNCHANGED <<aside, deleted_after_stop, config,
                   thread, pc, locals, history, clock, disk>>

\* lines 75-76: join returns and stop() with it
StopReturn ==
    /\ ctl = "join"
    /\ JoinReturns(thread)
    /\ ctl' = "idle"
    /\ last_call' = "stop"
    /\ UNCHANGED <<aside, deleted_after_stop, config, service, pc, locals,
                   history, clock, disk, join_deadline, stop_called,
                   stopped_asleep, told_to_stop>>

\* ------------------------------------------------------------ _cleanup_loop
\* line 82: while self._running
LoopConditionInverted == ~running
LoopCondition == running

\* lines 82-89: the loop test, which only reads the flag
LoopTestClearsFlag(t) ==
    /\ pc[t] = "while"
    /\ pc' = [pc EXCEPT ![t] = IF LoopCondition THEN "cleanup" ELSE "done"]
    /\ running' = FALSE
    /\ UNCHANGED <<aside, deleted_after_stop, config, thread, locals,
                   history, clock, disk, control>>
LoopTest(t) ==
    /\ pc[t] = "while"
    /\ pc' = [pc EXCEPT ![t] = IF LoopCondition THEN "cleanup" ELSE "done"]
    /\ UNCHANGED <<aside, deleted_after_stop, config,
                   service, locals, history, clock, disk, control>>

\* line 89: time.sleep(self.cleanup_interval) returns
SleepOver(t) == now >= wake_at[t]

Wake(t) ==
    /\ pc[t] = "sleep"
    /\ SleepOver(t)
    /\ pc' = [pc EXCEPT ![t] = "while"]
    /\ stopped_asleep' = stopped_asleep \ {t}
    /\ UNCHANGED <<aside, deleted_after_stop, config, service, locals,
                   history, clock, disk, ctl, join_deadline, last_call,
                   stop_called, told_to_stop>>

\* ------------------------------------------------------------ cleanup_old_files
\* line 99: return 0
MissingDirectoryError == 0 - 1
MissingDirectoryCount == 0

\* lines 98-105: exists, time.time(), deleted_count = 0, os.listdir.
\* A missing directory returns 0 (line 99) into the loop's sleep (line 89).
CycleBegin(t) ==
    /\ pc[t] = "cleanup"
    /\ current_time' = [current_time EXCEPT ![t] = now]
    /\ deleted_count' = [deleted_count EXCEPT ![t] =
          IF dir_exists THEN 0 ELSE MissingDirectoryCount]
    /\ snap' = [snap EXCEPT ![t] = fs]
    /\ removed_by' = [removed_by EXCEPT ![t] = {}]
    /\ failed_del' = [failed_del EXCEPT ![t] = {}]
    /\ inspect_failed' = [inspect_failed EXCEPT ![t] = FALSE]
    /\ cur' = [cur EXCEPT ![t] = "-"]
    /\ file_age' = [file_age EXCEPT ![t] = 0]
    /\ IF dir_exists
       THEN /\ todo' = [todo EXCEPT ![t] = ListDir]
            /\ pc' = [pc EXCEPT ![t] = "iter"]
            /\ UNCHANGED wake_at
       ELSE /\ todo' = [todo EXCEPT ![t] = {}]
            /\ pc' = [pc EXCEPT ![t] = "sleep"]
            /\ wake_at' = [wake_at EXCEPT ![t] = now + cleanup_interval]
    /\ UNCHANGED <<aside, deleted_after_stop, config,
                   service, clock, disk, control>>

\* lines 105-110: the next entry of the listing (os.listdir gives no order);
\* an entry that is no regular file is passed over
NextEntry(t) ==
    /\ pc[t] = "iter"
    /\ \E n \in todo[t] :
         /\ todo' = [todo EXCEPT ![t] = @ \ {n}]
         /\ cur' = [cur EXCEPT ![t] = IF IsFile(n) THEN n ELSE "-"]
         /\ pc' = [pc EXCEPT ![t] = IF IsFile(n) THEN "getmtime" ELSE "iter"]
    /\ UNCHANGED <<aside, deleted_after_stop, config,
                   service, current_time, file_age, deleted_count,
                   wake_at, history, clock, disk, control>>

\* line 105: the for loop ends when os.listdir's entries are used up, and
\* on nothing else
ExhaustedOrStopped(t) == todo[t] = {} \/ ~running
ListingExhausted(t) == todo[t] = {}

\* lines 129-137 and 89: the listing is exhausted, the cycle returns
\* deleted_count and the loop goes to sleep
CycleEnd(t) ==
    /\ pc[t] = "iter"
    /\ ListingExhausted(t)
    /\ pc' = [pc EXCEPT ![t] = "sleep"]
    /\ wake_at' = [wake_at EXCEPT ![t] = now + cleanup_interval]
    /\ UNCHANGED <<aside, deleted_after_stop, config,
                   service, todo, cur, current_time, file_age,
                   deleted_count, history, clock, disk, control>>

\* lines 113-116: os.path.getmtime and the age test.  getmtime of a file
\* that is gone raises FileNotFoundError, which only the handler of line 134
\* catches: the for loop is left, line 137 returns, the loop sleeps.
GetMtime(t) ==
    /\ pc[t] = "getmtime"
    /\ IF IsFile(cur[t])
       THEN LET age == current_time[t] - fs[cur[t]].mtime IN
            IF Qualifies(age)
            THEN /\ file_age' = [file_age EXCEPT ![t] = age]
                 /\ pc' = [pc EXCEPT ![t] = "remove"]
                 /\ UNCHANGED <<cur, wake_at, inspect_failed>>
            ELSE /\ pc' = [pc EXCEPT ![t] = "iter"]
                 /\ cur' = [cur EXCEPT ![t] = "-"]
                 /\ UNCHANGED <<file_age, wake_at, inspect_failed>>
       ELSE /\ inspect_failed' = [inspect_failed EXCEPT ![t] = TRUE]
            /\ pc' = [pc EXCEPT ![t] = "sleep"]
            /\ wake_at' = [wake_at EXCEPT ![t] = now + cleanup_interval]
            /\ cur' = [cur EXCEPT ![t] = "-"]
            /\ UNCHANGED file_age
    /\ UNCHANGED <<aside, deleted_after_stop, config,
                   service, todo, current_time, deleted_count,
                   snap, removed_by, failed_del, clock, disk, control>>

\* lines 124-127: except OSError around os.remove: log, go on with the loop
CountedAnyway(c) == c + 1
CountAfterError(c) == c

AbortOnRemoveError == "sleep"
AfterRemoveError == "iter"

\* the controller's last call was stop() and it has returned
StopHasReturned == ctl = "idle" /\ last_call = "stop"

\* lines 117-127: os.remove either removes the file and is counted, or
\* raises OSError (the file is gone, or the process may not remove it)
Remove(t) ==
    /\ pc[t] = "remove"
    /\ \E ok \in BOOLEAN :
         IF ok /\ IsFile(cur[t])
         THEN /\ fs' = [fs EXCEPT ![cur[t]] = Absent]
              /\ deleted_after_stop' = (deleted_after_stop \/ StopHasReturned)
              /\ deleted_count' = [deleted_count EXCEPT ![t] = @ + 1]
              /\ removed_by' = [removed_by EXCEPT ![t] = @ \cup {cur[t]}]
              /\ pc' = [pc EXCEPT ![t] = "iter"]
              /\ UNCHANGED <<failed_del, wake_at>>
         ELSE /\ failed_del' = [failed_del EXCEPT ![t] = @ \cup {cur[t]}]
              /\ deleted_count' = [deleted_count EXCEPT
                                      ![t] = CountAfterError(@)]
              /\ pc' = [pc EXCEPT ![t] = AfterRemoveError]
              /\ wake_at' = [wake_at EXCEPT ![t] =
                    IF AfterRemoveError = "sleep" THEN now + cleanup_interval
                                                  ELSE @]
              /\ UNCHANGED <<fs, removed_by, deleted_after_stop>>
    /\ cur' = [cur EXCEPT ![t] = "-"]
    /\ file_age' = [file_age EXCEPT ![t] = 0]
    /\ UNCHANGED <<aside, config,
                   service, todo, current_time, snap, inspect_failed,
                   clock, dir_exists, env, control>>

\* ------------------------------------------------------------ the directory's other users
\* AEPYouTubeDownloader.download_video: yt-dlp writes <title>.<ext> into the
\* download directory, over a file of the same name if there is one
Download(n) ==
    /\ env < MaxEnv
    /\ env' = env + 1
    /\ dir_exists' = TRUE
    /\ fs' = [fs EXCEPT ![n] = [kind |-> "file", mtime |-> now]]
    /\ UNCHANGED <<aside, deleted_after_stop, config,
                   service, pc, locals, history, clock, control>>

\* a file is removed by someone else than this cycle
Vanish(n) ==
    /\ env < MaxEnv
    /\ IsFile(n)
    /\ env' = env + 1
    /\ fs' = [fs EXCEPT ![n] = Absent]
    /\ UNCHANGED <<aside, deleted_after_stop, config,
                   service, pc, locals, history, clock, dir_exists,
                   control>>

\* ------------------------------------------------------------ time
TickSteps == {JoinTimeout, AEP_CLEANUP_INTERVAL_SECONDS}
CycleTickSteps == {1, AEP_CLEANUP_INTERVAL_SECONDS}

\* The clock advances.  A join that can return does so before time goes on,
\* and the clock does not step over the moment the join times out.
Tick(d) ==
    /\ ticks < MaxTicks
    /\ ctl = "join" => ~JoinReturns(thread)
    /\ (ctl = "join" /\ now < join_deadline) => now + d <= join_deadline
    /\ now' = now + d
    /\ ticks' = ticks + 1
    /\ UNCHANGED <<aside, deleted_after_stop, config,
                   service, pc, locals, history, disk, control>>

\* ------------------------------------------------------------ specification
Next ==
    \/ Start
    \/ StopCall
    \/ StopReturn
    \/ \E t \in Threads : LoopTest(t)
    \/ \E t \in Threads : Wake(t)
    \/ \E t \in Threads : CycleBegin(t)
    \/ \E t \in Threads : NextEntry(t)
    \/ \E t \in Threads : CycleEnd(t)
    \/ \E t \in Threads : GetMtime(t)
    \/ \E t \in Threads : Remove(t)
    \/ \E d \in TickSteps : Tick(d)

\* the service under any sequence of start() and stop() calls
Spec == Init /\ [][Next]_vars

NextLaunch ==
    \/ Next
    \/ StartFails

\* the same, on a host where launching a thread may fail
SpecLaunch == Init /\ [][NextLaunch]_vars

\* app.py, lines 266 and 277: the service is started once, at boot
StartOnce == Launched = {} /\ Start

NextCycle ==
    \/ StartOnce
    \/ \E t \in Threads : LoopTest(t)
    \/ \E t \in Threads : Wake(t)
    \/ \E t \in Threads : CycleBegin(t)
    \/ \E t \in Threads : NextEntry(t)
    \/ \E t \in Threads : CycleEnd(t)
    \/ \E t \in Threads : GetMtime(t)
    \/ \E t \in Threads : Remove(t)
    \/ \E n \in Files : Download(n)
    \/ \E n \in Files : Vanish(n)
    \/ \E d \in CycleTickSteps : Tick(d)

\* the service as app.py runs it, over every directory
SpecCycle == InitCycle /\ [][NextCycle]_vars

\* ------------------------------------------------------------ time without end
\* For a service that runs for ever the clock is read relative to the
\* present: instead of `now` moving on by d, every recorded time moves back
\* by d.  A modification time more than AgeCap back is kept at AgeCap: the
\* code tells ages apart only by the test of line 116, and such an age
\* passes it whatever it is.  Time goes by in sleeps; a cycle, which takes
\* milliseconds, is over before the clock moves.
AgeCap == AEP_FILE_MAX_AGE_SECONDS + AEP_CLEANUP_INTERVAL_SECONDS

Earlier(time, d, floor) == IF time - d < floor THEN floor ELSE time - d

Elapse(d) ==
    /\ \A t \in Threads : ~InCycle(t)
    /\ fs' = [n \in Names |->
                IF fs[n].kind = "none" THEN fs[n]
                ELSE [fs[n] EXCEPT !.mtime = Earlier(@, d, now - AgeCap)]]
    /\ wake_at' = [t \in Threads |-> Earlier(wake_at[t], d, now)]
    /\ UNCHANGED <<aside, deleted_after_stop, config, service, pc, todo, cur,
                   current_time, file_age, deleted_count, history, clock,
                   dir_exists, env, control>>

\* the directories that hold a.mp4, of any age, beside the subdirectory,
\* with or without a b.mp4 that is past the retention
LiveDirectories ==
    {d \in Directories :
        /\ d["a.mp4"].kind = "file" /\ d["sub"].kind = "dir"
        /\ d["b.mp4"].kind = "file" => d["b.mp4"].mtime = 0 - 3700}

InitLive ==
    /\ \E d \in LiveDirectories : InitWith(TRUE, d)
    /\ fsize = ScenarioSizes
    /\ tree = {}

\* os.remove succeeds whenever the file is there
RemoveSucceeds(t) ==
    Remove(t) /\ (IsFile(cur[t]) => fs'[cur[t]].kind = "none")

NextLive ==
    \/ StartOnce
    \/ \E t \in Threads : LoopTest(t)
    \/ \E t \in Threads : Wake(t)
    \/ \E t \in Threads : CycleBegin(t)
    \/ \E t \in Threads : NextEntry(t)
    \/ \E t \in Threads : CycleEnd(t)
    \/ \E t \in Threads : GetMtime(t)
    \/ \E t \in Threads : RemoveSucceeds(t)
    \/ \E n \in Files : Download(n)
    \/ \E n \in Files : Vanish(n)
    \/ Elapse(AEP_CLEANUP_INTERVAL_SECONDS)

\* the loop thread is scheduled again and again, and time goes by
Fairness ==
    /\ WF_vars(Elapse(AEP_CLEANUP_INTERVAL_SECONDS))
    /\ \A t \in Threads :
          /\ WF_vars(LoopTest(t)) /\ WF_vars(Wake(t))
          /\ WF_vars(CycleBegin(t)) /\ WF_vars(NextEntry(t))
          /\ WF_vars(CycleEnd(t)) /\ WF_vars(GetMtime(t))
          /\ WF_vars(RemoveSucceeds(t))

\* the service started at boot and never stopped, for ever, with a
\* fairly scheduled loop thread and deletions that succeed
SpecLive == InitLive /\ [][NextLive]_vars /\ Fairness

\* ------------------------------------------------------------ introspection
\* the sizes a file may have, and the directories the helpers are tried on:
\* any of the three files, and the subdirectory, present or not
StatSizes == {10, 20, 30, 40}

StatDirectories ==
    {d \in [Names -> {Absent, [kind |-> "file", mtime |-> 0 - 10],
                      [kind |-> "dir", mtime |-> 0 - 3700]}] :
        /\ \A n \in Files \cup MoreFiles : d[n].kind # "dir"
        /\ \A n \in Dirs : d[n].kind # "file"}

InitStats ==
    /\ \/ InitWith(FALSE, EmptyDirectory)
       \/ \E d \in StatDirectories : InitWith(TRUE, d)
    /\ fsize \in [Names -> StatSizes]
    /\ tree = {}

\* lines 154 and 174: if os.path.isfile(filepath)
CountedAny(n) == fs[n].kind # "none"
Counted(n) == IsFile(n)

\* lines 151-155: total_size += os.path.getsize(filepath), entry by entry
RECURSIVE SumOfSizes(_)
SumOfSizes(S) ==
    IF S = {} THEN 0
    ELSE LET n == CHOOSE x \in S : TRUE
         IN  fsize[n] + SumOfSizes(S \ {n})

\* lines 161-178
GetFileCount ==
    /\ stat' = [op |-> "get_file_count",
                value |-> IF ~dir_exists THEN 0
                          ELSE Cardinality({n \in ListDir : Counted(n)})]
    /\ UNCHANGED <<config, service, pc, locals, history, clock, disk,
                   control, deleted_after_stop, fsize, tree, response>>

\* lines 139-159
GetDirectorySize ==
    /\ stat' = [op |-> "get_directory_size",
                value |-> IF ~dir_exists THEN 0
                          ELSE SumOfSizes({n \in ListDir : Counted(n)})]
    /\ UNCHANGED <<config, service, pc, locals, history, clock, disk,
                   control, deleted_after_stop, fsize, tree, response>>

NextStats ==
    \/ GetFileCount
    \/ GetDirectorySize

NextFrame ==
    \/ StartOnce
    \/ StopCall
    \/ StopReturn
    \/ \E t \in Threads : LoopTest(t)
    \/ \E t \in Threads : Wake(t)
    \/ \E t \in Threads : CycleBegin(t)
    \/ \E t \in Threads : NextEntry(t)
    \/ \E t \in Threads : CycleEnd(t)
    \/ \E t \in Threads : GetMtime(t)
    \/ \E t \in Threads : Remove(t)
    \/ \E d \in TickSteps : Tick(d)
    \/ GetFileCount
    \/ GetDirectorySize

\* the service as app.py runs it, started at boot (line 266) and stopped
\* at shutdown (line 277), with the helpers called at any time
SpecFrame == Init /\ [][NextFrame]_vars

\* the two helpers, called on a directory nobody else is using
SpecStats == InitStats /\ [][NextStats]_vars

\* ------------------------------------------------------------ GET /api/file/<name>
\* Paths are sequences of characters.  The download folder is /d, and the
\* host holds a file in it, one in its sibling /dx, and one in the root.
MaxNameLen == 5

DOWNLOAD_FOLDER == <<"/", "d">>
Cwd == <<"/">>
HostDirectories == {<<"/">>, DOWNLOAD_FOLDER, <<"/", "d", "x">>}
HostFiles == {<<"/", "d", "/", "x">>, <<"/", "d", "x", "/", "x">>, <<"/", "x">>}

\* what a request's filename is made of: characters and a percent escape
Tokens == {"/", ".", "d", "x", "%2F"}

\* line 176: <path:filename> matches a non-empty path that does not begin
\* with a slash
RequestNames ==
    {q \in UNION {[1..k -> Tokens] : k \in 1..MaxNameLen} : q[1] # "/"}

\* line 190: unquote(filename)
Unquote(q) ==
    [i \in 1..Len(q) |-> IF q[i] = "%2F" THEN "/" ELSE q[i]]

\* str.startswith
StartsWith(path, prefix) ==
    /\ Len(prefix) <= Len(path)
    /\ SubSeq(path, 1, Len(prefix)) = prefix

\* os.path.join(a, b)
JoinPath(a, b) ==
    IF StartsWith(b, <<"/">>) THEN b
    ELSE IF a = <<>> \/ a[Len(a)] = "/" THEN a \o b
    ELSE a \o <<"/">> \o b

\* str.split('/')
FirstSlash(path) ==
    IF \E i \in 1..Len(path) : path[i] = "/"
    THEN CHOOSE i \in 1..Len(path) :
            path[i] = "/" /\ \A j \in 1..(i - 1) : path[j] # "/"
    ELSE 0

RECURSIVE Split(_)
Split(path) ==
    LET i == FirstSlash(path)
    IN  IF i = 0 THEN <<path>>
        ELSE <<SubSeq(path, 1, i - 1)>> \o Split(SubSeq(path, i + 1, Len(path)))

\* '/'.join(comps)
RECURSIVE JoinComps(_)
JoinComps(comps) ==
    IF comps = <<>> THEN <<>>
    ELSE IF Len(comps) = 1 THEN comps[1]
    ELSE comps[1] \o <<"/">> \o JoinComps(Tail(comps))

\* posixpath.normpath: the loop over the components
RECURSIVE Collapse(_, _, _)
Collapse(comps, new_comps, initial_slashes) ==
    IF comps = <<>> THEN new_comps
    ELSE LET comp == Head(comps)
             rest == Tail(comps)
         IN  IF comp \in {<<>>, <<".">>}
             THEN Collapse(rest, new_comps, initial_slashes)
             ELSE IF \/ comp # <<".", ".">>
                     \/ (initial_slashes = 0 /\ new_comps = <<>>)
                     \/ (new_comps # <<>>
                           /\ new_comps[Len(new_comps)] = <<".", ".">>)
             THEN Collapse(rest, Append(new_comps, comp), initial_slashes)
             ELSE IF new_comps # <<>>
             THEN Collapse(rest, SubSeq(new_comps, 1, Len(new_comps) - 1),
                           initial_slashes)
             ELSE Collapse(rest, new_comps, initial_slashes)

\* posixpath.normpath
NormPath(path) ==
    LET initial_slashes ==
            IF ~StartsWith(path, <<"/">>) THEN 0
            ELSE IF StartsWith(path, <<"/", "/">>)
                    /\ ~StartsWith(path, <<"/", "/", "/">>) THEN 2
            ELSE 1
        joined == JoinComps(Collapse(Split(path), <<>>, initial_slashes))
        out == [i \in 1..initial_slashes |-> "/"] \o joined
    IN  IF out = <<>> THEN <<".">> ELSE out

\* os.path.abspath
AbsPath(path) ==
    NormPath(IF StartsWith(path, <<"/">>) THEN path ELSE JoinPath(Cwd, path))

\* os.path.exists
PathExists(path) == path \in tree \cup HostDirectories

\* lines 187-223: the answer to a request for `filename`
DownloadFileAnswer(filename) ==
    LET decoded_filename == Unquote(filename)
        filepath == AbsPath(JoinPath(DOWNLOAD_FOLDER, decoded_filename))
        download_folder == AbsPath(DOWNLOAD_FOLDER)
        status == IF ~StartsWith(filepath, download_folder) THEN 403
                  ELSE IF ~PathExists(filepath) THEN 404
                  ELSE IF filepath \in tree THEN 200
                  ELSE 500
    IN  [route |-> "file", status |-> status, filepath |-> filepath]

download_file(filename) ==
    /\ response = NoResponse
    /\ response' = DownloadFileAnswer(filename)
    /\ UNCHANGED <<config, service, pc, locals, history, clock, disk,
                   control, deleted_after_stop, fsize, stat, tree>>

\* ------------------------------------------------------------ POST /api/info
MaxUrlLen == 3

\* the strings a body may give as its url: letters and blanks
UrlStrings == UNION {[1..k -> {"u", " "}] : k \in 0..MaxUrlLen}

\* what request.get_json(force=True, silent=True) returns (line 92): None
\* for a body that is no JSON, else the value: an array, empty or not, or
\* an object that is empty, has other keys only, or has a url that is a
\* string or something else (a number, null).  `keys` are the keys of the
\* object or the indices of the array.
Body(json, keys, is_str, url) ==
    [json |-> json, keys |-> keys, url_is_str |-> is_str, url |-> url]

Bodies ==
    {Body("none", {}, FALSE, <<>>),
     Body("array", {}, FALSE, <<>>), Body("array", {"0"}, FALSE, <<>>),
     Body("object", {}, FALSE, <<>>), Body("object", {"other"}, FALSE, <<>>),
     Body("object", {"url"}, FALSE, <<>>)}
    \cup {Body("object", {"url"}, TRUE, u) : u \in UrlStrings}

\* line 94: not data
Falsy(data) == data.json = "none" \/ data.keys = {}

\* str.strip
RECURSIVE LStrip(_)
LStrip(u) == IF u # <<>> /\ Head(u) = " " THEN LStrip(Tail(u)) ELSE u

RECURSIVE RStrip(_)
RStrip(u) ==
    IF u # <<>> /\ u[Len(u)] = " " THEN RStrip(SubSeq(u, 1, Len(u) - 1)) ELSE u

Strip(u) == RStrip(LStrip(u))

\* what yt-dlp's extract_info does with the url
Outcomes == {"info", "raises"}
Metadata == [title |-> "t", formats |-> "f"]

\* AEPYouTubeDownloader.get_video_info (youtube_downloader.py, lines
\* 50-102): the metadata, or None when anything was raised
DownloaderGetVideoInfo(url, outcome) ==
    IF outcome = "raises" THEN [none |-> TRUE] ELSE Metadata

\* lines 87-127: the answer to a request with this body, when extract_info
\* would behave as `outcome`
GetVideoInfoAnswer(data, outcome) ==
    LET error(code) ==
            [route |-> "info", status |-> code, success |-> FALSE,
             body |-> data, outcome |-> outcome]
    IN  IF Falsy(data) THEN error(400)
        ELSE IF data.json # "object" THEN error(500)
        ELSE IF "url" \in data.keys /\ ~data.url_is_str THEN error(500)
        ELSE LET url == Strip(IF "url" \in data.keys THEN data.url ELSE <<>>)
                 info == DownloaderGetVideoInfo(url, outcome)
             IN  IF url = <<>> THEN error(400)
                 ELSE IF info = Metadata
                 THEN [route |-> "info", status |-> 200, success |-> TRUE,
                       info |-> info, body |-> data, outcome |-> outcome]
                 ELSE error(400)

get_video_info(data, outcome) ==
    /\ response = NoResponse
    /\ response' = GetVideoInfoAnswer(data, outcome)
    /\ UNCHANGED <<config, service, pc, locals, history, clock, disk,
                   control, deleted_after_stop, fsize, stat, tree>>

\* ------------------------------------------------------------ the HTTP boundary
InitApi ==
    /\ InitWith(TRUE, EmptyDirectory)
    /\ fsize = ScenarioSizes
    /\ tree \in SUBSET HostFiles

NextApi ==
    \/ \E filename \in RequestNames : download_file(filename)
    \/ \E data \in Bodies : \E outcome \in Outcomes :
          get_video_info(data, outcome)

\* the two handlers, which keep nothing from one request to the next:
\* a behaviour is one request and its answer
SpecApi == InitApi /\ [][NextApi]_vars

\* ------------------------------------------------------------ claims
\* a loop thread that is running a cycle, or will run one when it next
\* tests the flag
Active(t) == InCycle(t) \/ (pc[t] \in {"while", "sleep"} /\ running)

\* thread t removes file n in this step
Removes(t, n) == n \in removed_by'[t] /\ n \notin removed_by[t]

\* os.remove raises in thread t in this step
RemoveFails(t) == failed_del'[t] # failed_del[t] /\ failed_del'[t] # {}

\* the cycle of thread t has returned and its loop is in time.sleep
Returned(t) == pc[t] = "sleep"

\* the age the cycle of thread t gives the file n had when the cycle began
AgeAtStart(t, n) == current_time[t] - snap[t][n].mtime

OldAtStart(t) ==
    {n \in Files : IsFileRec(snap[t][n]) /\ AgeAtStart(t, n) > max_age_seconds}

\* C1: in every reachable state at most one loop thread of the service is
\* alive and able to run cleanup cycles.
C1_AtMostOneLoop == Cardinality({t \in Threads : Active(t)}) <= 1

\* C2: a cycle removes a file only when the age it measured for it (cycle
\* timestamp minus the modification time read at line 113) is greater than
\* max_age_seconds; a file unchanged since the cycle began whose age is
\* max_age_seconds or less is not removed, exactly max_age_seconds included.
C2_YoungFilesKept ==
    [][\A t \in Threads : \A n \in Files :
         Removes(t, n) =>
            /\ file_age[t] > max_age_seconds
            /\ fs[n] = snap[t][n] => AgeAtStart(t, n) > max_age_seconds]_vars

\* a cycle that visited every entry has returned and a file exactly
\* max_age_seconds old is still there
C2_Witness ==
    \E t \in Threads : \E n \in Files :
        /\ Returned(t) /\ todo[t] = {} /\ ~inspect_failed[t]
        /\ IsFileRec(snap[t][n])
        /\ AgeAtStart(t, n) = max_age_seconds
        /\ fs[n] = snap[t][n]

\* C3: when a cycle returns, every file that was in the directory when it
\* began and was then older than max_age_seconds is gone, unless it was
\* created again meanwhile.  (Stated with the deletion policy of the spec:
\* a file whose os.remove raised is left out.)
C3_OldFilesGone ==
    \A t \in Threads :
        Returned(t) =>
            \A n \in OldAtStart(t) \ failed_del[t] : fs[n] # snap[t][n]

\* C4: when a cycle returns, every entry of its listing has been visited,
\* whether or not the inspection of an entry failed.
C4_InspectFailureSkipsOneEntry ==
    \A t \in Threads : Returned(t) => todo[t] = {}

\* C5: a loop thread that was in its interval sleep when stop() was called
\* can leave the sleep at once, without the rest of cleanup_interval.
C5_StopWakesSleeper ==
    \A t \in stopped_asleep : pc[t] = "sleep" => SleepOver(t)

\* C6: once stop() has returned the flag is false, whether or not the loop
\* thread has ended; stop() is never in its join past the join deadline;
\* stop() on a stopped service changes nothing and creates no thread.
C6_StopReturnsStopped ==
    /\ [](last_call = "stop" => ~running)
    /\ [](ctl = "join" => now <= join_deadline)
    /\ [][(StopCall /\ ~running) =>
            (~running' /\ pc' = pc /\ thread' = thread)]_vars
    /\ [][StopReturn => (~running' /\ pc' = pc)]_vars

\* stop() has returned on the join timeout, the loop thread still asleep
C6_Witness ==
    /\ last_call = "stop" /\ ctl = "idle" /\ ~running
    /\ thread # None /\ Alive(thread) /\ pc[thread] = "sleep"
    /\ now = join_deadline /\ now < wake_at[thread]

\* C7: a loop thread ends only by finding the flag false at line 82, which
\* takes a stop() call; a failure in a cycle leaves the thread in its loop.
C7_LoopEndsOnlyOnStop ==
    /\ [](\A t \in Threads : pc[t] = "done" => stop_called)
    /\ [][\A t \in Threads :
            (pc[t] # "done" /\ pc'[t] = "done") =>
                (pc[t] = "while" /\ ~running)]_vars
    /\ [][\A t \in Threads :
            (RemoveFails(t) \/ (inspect_failed'[t] /\ ~inspect_failed[t]))
                => pc'[t] \in {"iter", "sleep"}]_vars

\* with no stop() so far, a thread whose last cycle had a failure has slept
\* and passed the loop test again
C7_Witness ==
    \E t \in Threads :
        /\ ~stop_called /\ running
        /\ pc[t] = "cleanup" /\ failed_del[t] # {}

\* C8: start() on a stopped service sets the flag, records and launches
\* exactly one new thread and returns; start() on a running service changes
\* neither the flag, nor the handle, nor any thread.
C8_StartIdempotent ==
    /\ [][(Start /\ ~running) =>
            /\ running' /\ ctl' = "idle"
            /\ thread' \in Threads \ Launched
            /\ Launched' = Launched \cup {thread'}
            /\ pc'[thread'] = "while"
            /\ \A t \in Launched : pc'[t] = pc[t]]_vars
    /\ [][(Start /\ running) =>
            (running' /\ thread' = thread /\ pc' = pc)]_vars
    /\ [](last_call = "start_noop" => thread # None)

\* start() twice: the second call did nothing, one thread was launched
C8_Witness ==
    /\ last_call = "start_noop" /\ running
    /\ Cardinality(Launched) = 1 /\ thread = 1

\* C9: when os.remove raises, the cycle goes on with the entries still to
\* visit, the file is not among them (no second attempt in the cycle), it
\* is not counted, and the directory is left as it was, so that the file is
\* listed again by the next cycle.
C9_FailedDeleteSkipped ==
    /\ [][\A t \in Threads :
            RemoveFails(t) =>
                /\ pc'[t] = "iter"
                /\ todo'[t] = todo[t]
                /\ cur[t] \notin todo[t]
                /\ failed_del'[t] = failed_del[t] \cup {cur[t]}
                /\ deleted_count'[t] = deleted_count[t]
                /\ fs' = fs]_vars
    /\ [](\A t \in Threads : failed_del[t] \cap todo[t] = {})

\* a cycle has returned in which one removal failed, the file still there,
\* and another file was removed
C9_Witness ==
    \E t \in Threads : \E n \in Files :
        /\ Returned(t)
        /\ failed_del[t] = {n} /\ fs[n] = snap[t][n]
        /\ removed_by[t] # {}

\* C10: the count a cycle returns is the number of files it removed, all of
\* them files listed when it began; with no failure and nobody else at the
\* directory these are exactly the files then older than max_age_seconds;
\* a cycle in which an inspection failed still returns to its loop.
C10_CountIsRemoved ==
    \A t \in Threads :
        /\ deleted_count[t] = Cardinality(removed_by[t])
        /\ removed_by[t] \subseteq {n \in Files : IsFileRec(snap[t][n])}
        /\ (Returned(t) /\ env = 0 /\ failed_del[t] = {}) =>
              /\ removed_by[t] = OldAtStart(t)
              /\ \A n \in Names :
                    fs[n] = IF n \in OldAtStart(t) THEN Absent ELSE snap[t][n]
        /\ inspect_failed[t] => pc[t] \in {"sleep", "while", "cleanup"}

\* files of 10 s and 3700 s: the cycle returned 1 and removed the second
C10_Witness ==
    \E t \in Threads :
        /\ Returned(t) /\ deleted_count[t] = 1
        /\ IsFileRec(snap[t]["a.mp4"]) /\ AgeAtStart(t, "a.mp4") = 10
        /\ IsFileRec(snap[t]["b.mp4"]) /\ AgeAtStart(t, "b.mp4") = 3700
        /\ fs["a.mp4"] = snap[t]["a.mp4"]
        /\ fs["b.mp4"] = Absent

\* C11: a cleanup cycle that finds the download directory missing, or
\* existing and empty, has nothing to visit, returns 0 to its loop without
\* an error, and none of its steps changes the directory.
C11_NothingToClean ==
    [][\A t \in Threads :
          /\ (pc[t] = "cleanup" /\ pc'[t] # "cleanup"
                 /\ (~dir_exists \/ ListDir = {})) =>
                /\ todo'[t] = {} /\ deleted_count'[t] = 0
                /\ pc'[t] = IF dir_exists THEN "iter" ELSE "sleep"
                /\ fs' = fs /\ dir_exists' = dir_exists
          /\ (pc[t] = "iter" /\ pc'[t] # "iter"
                 /\ snap[t] = EmptyDirectory) =>
                /\ pc'[t] = "sleep" /\ deleted_count'[t] = 0
                /\ ~inspect_failed'[t] /\ failed_del'[t] = {}
                /\ removed_by'[t] = {}
                /\ fs' = fs /\ dir_exists' = dir_exists]_vars

\* a cycle over a missing directory has returned 0
C11_Witness ==
    \E t \in Threads :
        /\ Returned(t) /\ ~dir_exists
        /\ deleted_count[t] = 0 /\ removed_by[t] = {}

\* the bytes entry n adds to the directory's size: its size when it is a
\* regular file
FileBytes(n) == IF fs[n].kind = "file" THEN fsize[n] ELSE 0

\* C12: get_file_count returns the number of regular files that are direct
\* entries of the download directory and get_directory_size the sum of their
\* sizes, subdirectories left out of both; both return 0 when the directory
\* does not exist; neither changes the directory nor the service.
C12_Introspection ==
    /\ [](stat.op = "get_file_count" =>
            stat.value = IF dir_exists
                         THEN Cardinality({n \in Files \cup MoreFiles :
                                              fs[n].kind = "file"})
                         ELSE 0)
    /\ [](stat.op = "get_directory_size" =>
            stat.value = IF dir_exists
                         THEN FileBytes("a.mp4") + FileBytes("b.mp4")
                                 + FileBytes("c.mp4")
                         ELSE 0)
    /\ [][stat' # stat =>
            UNCHANGED <<fs, dir_exists, fsize, service, config, pc>>]_vars

\* three files of 10, 20 and 30 bytes beside a subdirectory: 60 bytes
C12_Witness ==
    /\ stat = [op |-> "get_directory_size", value |-> 60]
    /\ fsize = ScenarioSizes
    /\ \A n \in Files \cup MoreFiles : fs[n].kind = "file"
    /\ fs["sub"].kind = "dir"

\* a path lies inside the download folder when it is the folder or is
\* below it
InsideFolder(path) ==
    \/ path = DOWNLOAD_FOLDER
    \/ /\ Len(path) > Len(DOWNLOAD_FOLDER) + 1
       /\ SubSeq(path, 1, Len(DOWNLOAD_FOLDER) + 1) = DOWNLOAD_FOLDER \o <<"/">>

\* C13: GET /api/file/<name> answers 403 whenever the resolved path lies
\* outside the download folder, a sibling folder whose name begins with the
\* download folder's name included; it serves no file from outside; it
\* answers 404 when the path is inside and the file is absent.
C13_NoEscape ==
    response.route = "file" =>
        /\ ~InsideFolder(response.filepath) => response.status = 403
        /\ response.status = 200 => InsideFolder(response.filepath)
        /\ (InsideFolder(response.filepath)
              /\ ~PathExists(response.filepath)) => response.status = 404

\* the body gives no url, or one that is empty or blank
NoUrl(data) ==
    \/ Falsy(data)
    \/ data.json = "object" /\ "url" \notin data.keys
    \/ /\ data.json = "object" /\ "url" \in data.keys /\ data.url_is_str
       /\ \A i \in 1..Len(data.url) : data.url[i] = " "

\* the body is an object whose url is a string that is not blank
GivesUrl(data) ==
    /\ data.json = "object" /\ "url" \in data.keys /\ data.url_is_str
    /\ \E i \in 1..Len(data.url) : data.url[i] # " "

\* C14: POST /api/info answers 400 when the body has no url or
\* an empty or blank one, 500 when the extraction collaborator fails while
\* fetching the metadata, and a success envelope with the metadata when it
\* succeeds.
C14_CollaboratorFailureIs500 ==
    response.route = "info" =>
        /\ NoUrl(response.body) => response.status = 400
        /\ (GivesUrl(response.body) /\ response.outcome = "raises") =>
              response.status = 500
        /\ (GivesUrl(response.body) /\ response.outcome = "info") =>
              /\ response.status = 200 /\ response.success
              /\ response.info = Metadata

\* a regular file older than the retention
PastRetention(n) == IsFile(n) /\ now - fs[n].mtime > max_age_seconds

\* C15: while the service is running, with its loop thread scheduled fairly
\* and deletions succeeding, a regular file whose age has exceeded
\* max_age_seconds is eventually deleted, unless it is modified again.
C15_OldFilesPurged ==
    \A n \in Files : (running /\ PastRetention(n)) ~> ~PastRetention(n)

\* a file that was 10 s old when the service was built has aged past the
\* retention and been removed by a later cycle
C15_Witness ==
    \E t \in Threads :
        /\ "a.mp4" \in removed_by[t] /\ env = 0
        /\ IsFileRec(snap[t]["a.mp4"])
        /\ snap[t]["a.mp4"].mtime \notin {0 - a : a \in InitAges}

\* C16: however a cleanup cycle and a download into the same directory
\* interleave, the download overwriting a file of the same name between the
\* cycle's age test and its os.remove included, the cycle never removes a
\* file whose modification time, when it is removed, is within
\* max_age_seconds of the present.
C16_NoFreshFileDeleted ==
    [][\A t \in Threads : \A n \in Files :
          Removes(t, n) => now - fs[n].mtime > max_age_seconds]_vars

\* C17: a loop thread that was alive when stop() was called begins no new
\* cleanup cycle once its current iteration is over (it is back at the loop
\* test), whatever is called afterwards, a later start() included; so it
\* can only end.
C17_StoppedThreadsEnd ==
    [][\A t \in told_to_stop : pc[t] = "while" => pc'[t] # "cleanup"]_vars

\* thread t is inside the for loop of its cycle
InForLoop(t) == pc[t] \in {"iter", "getmtime", "remove"}

\* C18: stop() does not cut a cycle short: whatever the flag says, a cycle
\* leaves its for loop only when every entry it listed has been visited (or
\* when an inspection raised, C4), and returns to its loop; so files are
\* still removed after stop() was called, and after it has returned.
C18_CycleNotCutShort ==
    [][\A t \in Threads :
          (InForLoop(t) /\ ~InForLoop(t)') =>
              /\ pc'[t] = "sleep"
              /\ todo[t] = {} \/ inspect_failed'[t]]_vars

\* stop() has returned, on the timeout of its join, and a file was removed
\* after that by the cycle that was in progress
C18_Witness ==
    /\ deleted_after_stop /\ StopHasReturned /\ ~running
    /\ \E t \in Threads : Alive(t) /\ removed_by[t] # {}

\* C19: the service is Running only when a loop thread was launched: a
\* start() that fails to launch its thread leaves the service Stopped, so
\* that a later start() still launches a loop.
C19_RunningMeansLaunched ==
    running => (thread # None /\ pc[thread] # "unborn")

\* C20: the service is Stopped until the first call, and _running,
\* max_age_seconds, cleanup_interval and download_path change in no step
\* but a call of start() or stop(): the loop thread, cleanup_old_files,
\* get_directory_size and get_file_count leave them as they are.
C20_OnlyStartAndStop ==
    /\ []((last_call = "none" /\ ctl = "idle") => ~running)
    /\ [][<<running, config>>' # <<running, config>> =>
            (Start \/ StopCall)]_vars

\* a cycle has removed a file, a helper has been called, and the service
\* is Running as start() left it
C20_Witness ==
    /\ running /\ last_call = "start" /\ stat.op # "none"
    /\ \E t \in Threads : Returned(t) /\ removed_by[t] # {}

\* C21: a step of cleanup_old_files changes the download directory only by
\* removing one regular file that is a direct entry of it: a subdirectory,
\* however old, stays as it is, no entry is created and none is modified.
\* (Steps that count in env are the downloader's and other actors'.)
C21_OnlyRegularFilesRemoved ==
    [][(<<fs, dir_exists>>' # <<fs, dir_exists>> /\ env' = env) =>
          /\ dir_exists' = dir_exists
          /\ \E t \in Threads : \E n \in Files :
                /\ pc[t] = "remove" /\ cur[t] = n /\ Removes(t, n)
                /\ fs[n].kind = "file"
                /\ fs' = [fs EXCEPT ![n] = Absent]]_vars

\* a cycle that listed a subdirectory older than the retention has
\* returned: it removed a file, and the subdirectory is as it was
C21_Witness ==
    \E t \in Threads :
        /\ Returned(t) /\ removed_by[t] # {}
        /\ snap[t]["sub"].kind = "dir"
        /\ current_time[t] - snap[t]["sub"].mtime > max_age_seconds
        /\ fs["sub"] = snap[t]["sub"]

====
